---- MODULE Spec2Model ----
(***************************************************************************)
(* Model of the drawing-classifier data iterator (simple_data_iterator),   *)
(* its label registry (compute_properties) and the double-buffered         *)
(* train / validation loops of drawing_classifier.                         *)
(***************************************************************************)
EXTENDS Integers, Sequences, FiniteSets, TLC

\* ------------------------------------------------------------------------
\* Bounds of the model
\* ------------------------------------------------------------------------
MaxRows == 3
MaxExpected == 2
MaxBatch == 5
MaxSeed == 1
MaxEmitted == 7
HashBits == 3

\* ------------------------------------------------------------------------
\* Labels.  flex_string values; LabelOrder is their lexicographic order.
\* ------------------------------------------------------------------------
LabelOrder == <<"bar", "baz", "foo">>

Labels == {LabelOrder[i] : i \in 1..Len(LabelOrder)}

LabelRank(l) == CHOOSE i \in 1..Len(LabelOrder) : LabelOrder[i] = l

LabelLess(a, b) == LabelRank(a) < LabelRank(b)

Range(s) == {s[i] : i \in 1..Len(s)}

SeqsUpTo(S, n) == UNION {[1..k -> S] : k \in 0..n}

\* The labels of the datasets that are iterated over.
TrainLabels == {"bar", "foo"}

\* ------------------------------------------------------------------------
\* gl_sarray::unique() and gl_sarray::sort() as used by compute_properties
\* ------------------------------------------------------------------------
RECURSIVE unique(_)
unique(s) ==
  IF s = <<>> THEN <<>>
  ELSE LET front == SubSeq(s, 1, Len(s) - 1)
           u == unique(front)
       IN IF s[Len(s)] \in Range(front) THEN u ELSE Append(u, s[Len(s)])

RECURSIVE insert_sorted(_, _)
insert_sorted(s, l) ==
  IF s = <<>> THEN <<l>>
  ELSE IF LabelLess(l, s[1]) THEN <<l>> \o s
       ELSE <<s[1]>> \o insert_sorted(Tail(s), l)

\* Variant: the sort() call left out.
sort_unsorted(s) == s

RECURSIVE sort(_)
sort(s) ==
  IF s = <<>> THEN <<>>
  ELSE insert_sorted(sort(SubSeq(s, 1, Len(s) - 1)), s[Len(s)])

EmptyMap == [k \in {} |-> 0]

\* Variant: indices counted from 1.
RECURSIVE assign_indices_from_one(_, _, _)
assign_indices_from_one(classes, from, m) ==
  IF from > Len(classes) THEN m
  ELSE LET l == classes[from]
           m2 == [k \in (DOMAIN m) \cup {l} |-> IF k = l THEN from ELSE m[k]]
       IN assign_indices_from_one(classes, from + 1, m2)

\* The loop "class_to_index_map[label] = i++" over classes[from..]: a later
\* assignment to the same key overwrites the earlier one.
RECURSIVE assign_indices(_, _, _)
assign_indices(classes, from, m) ==
  IF from > Len(classes) THEN m
  ELSE LET l == classes[from]
           m2 == [k \in (DOMAIN m) \cup {l} |-> IF k = l THEN from - 1 ELSE m[k]]
       IN assign_indices(classes, from + 1, m2)

\* Variant: the verification loop left out.
has_unexpected_label_unchecked(classes, m) == FALSE

\* The verification loop of the expected-labels branch: TRUE iff some
\* observed label is missing from the map (log_and_throw).
has_unexpected_label(classes, m) ==
  \E i \in 1..Len(classes) : classes[i] \notin DOMAIN m

\* Variant: the expected labels are re-sorted and de-duplicated like the
\* inferred ones.
compute_properties_sorted_expected(targets, expected_class_labels) ==
  LET classes == sort(unique(targets))
      wanted == sort(unique(expected_class_labels))
      m == assign_indices(wanted, 1, EmptyMap)
  IN IF expected_class_labels = <<>>
     THEN [threw |-> FALSE,
           classes |-> classes,
           class_to_index_map |-> assign_indices(classes, 1, EmptyMap)]
     ELSE IF has_unexpected_label(classes, m)
          THEN [threw |-> TRUE, classes |-> <<>>, class_to_index_map |-> EmptyMap]
          ELSE [threw |-> FALSE, classes |-> wanted, class_to_index_map |-> m]

\* simple_data_iterator::compute_properties
compute_properties(targets, expected_class_labels) ==
  LET classes == sort(unique(targets))
  IN IF expected_class_labels = <<>>
     THEN [threw |-> FALSE,
           classes |-> classes,
           class_to_index_map |-> assign_indices(classes, 1, EmptyMap)]
     ELSE LET m == assign_indices(expected_class_labels, 1, EmptyMap)
          IN IF has_unexpected_label(classes, m)
             THEN [threw |-> TRUE, classes |-> <<>>, class_to_index_map |-> EmptyMap]
             ELSE [threw |-> FALSE,
                   classes |-> expected_class_labels,
                   class_to_index_map |-> m]

\* ------------------------------------------------------------------------
\* Random engine, hash64 and the shuffle of next_batch
\* ------------------------------------------------------------------------
RECURSIVE Pow2(_)
Pow2(n) == IF n = 0 THEN 1 ELSE 2 * Pow2(n - 1)

WordMod == Pow2(HashBits)

RECURSIVE xor(_, _)
xor(a, b) ==
  IF a = 0 THEN b
  ELSE IF b = 0 THEN a
  ELSE (((a % 2) + (b % 2)) % 2) + 2 * xor(a \div 2, b \div 2)

\* hash64: a fixed mixing function on machine words (injective here, as
\* the 64-bit hash is on the handful of indices of a dataset).
hash64(x) == (5 * x + 3) % WordMod

\* One draw of dist(random_engine_): the engine advances and the drawn
\* value is the random_mask.
engine_step(s) == (5 * s + 1) % WordMod

engine_seed(seed) == seed % WordMod

\* Variant: position k takes the row its key points at, instead of the rows
\* being sorted by key.
shuffle_rows_by_lookup(data, random_mask) ==
  LET n == Len(data)
  IN [k \in 1..n |-> data[(hash64(xor(random_mask, k - 1)) % n) + 1]]

\* data_.sort("_random_order"): rows ordered by ascending key, where the
\* key of the row at (0-based) position p is hash64(random_mask ^ p).
shuffle_rows(data, random_mask) ==
  LET n == Len(data)
      key(p) == hash64(xor(random_mask, p - 1))
      rank(p) == Cardinality({q \in 1..n : key(q) < key(p)}) + 1
      at(k) == CHOOSE p \in 1..n : rank(p) = k
  IN [k \in 1..n |-> data[at(k)]]

\* ------------------------------------------------------------------------
\* simple_data_iterator
\* ------------------------------------------------------------------------
\* A row of the SFrame: its identity in the original order (standing for
\* the feature image) and its target label.
Rows(labels) == [i \in 1..Len(labels) |-> [id |-> i - 1, target |-> labels[i]]]

kDrawingHeight == 28
kDrawingWidth == 28
kDrawingChannels == 1

\* The columns of an SFrame that carries predictions, in order.
ColumnNames == <<"feature", "target", "predictions">>

\* gl_sframe::column_index
column_index(name) == CHOOSE i \in 0..(Len(ColumnNames) - 1) : ColumnNames[i + 1] = name

\* The rows of an SFrame with a predictions column.
RowsWithPredictions(labels, predictions) ==
  [i \in 1..Len(labels) |->
     [id |-> i - 1, target |-> labels[i], prediction |-> predictions[i]]]

TargetColumn(data) == [i \in 1..Len(data) |-> data[i].target]

NoIterator == [constructed |-> FALSE]

\* Values a default-initialised end_of_rows_ may compare equal to: the
\* constructor never assigns it.
UninitEnd(data) == 0..Len(data)

\* Variant: the random engine is left unseeded, like end_of_rows_.
construct_unseeded(p, e) ==
  LET tp == compute_properties(TargetColumn(p.data), p.class_labels)
  IN IF tp.threw THEN [constructed |-> FALSE, threw |-> TRUE]
     ELSE [constructed |-> TRUE,
           data_ |-> p.data,
           predictions_index_ |-> IF p.predictions_column_name = "" THEN -1
                                  ELSE column_index(p.predictions_column_name),
           repeat_ |-> p.repeat,
           shuffle_ |-> p.shuffle,
           target_properties_ |-> tp,
           next_row_ |-> 0,
           end_of_rows_ |-> e,
           random_engine_ |-> engine_seed(e)]

\* simple_data_iterator::simple_data_iterator, given the value e that the
\* unassigned member end_of_rows_ happens to hold.
construct(p, e) ==
  LET tp == compute_properties(TargetColumn(p.data), p.class_labels)
  IN IF tp.threw THEN [constructed |-> FALSE, threw |-> TRUE]
     ELSE [constructed |-> TRUE,
           data_ |-> p.data,
           predictions_index_ |-> IF p.predictions_column_name = "" THEN -1
                                  ELSE column_index(p.predictions_column_name),
           repeat_ |-> p.repeat,
           shuffle_ |-> p.shuffle,
           target_properties_ |-> tp,
           next_row_ |-> 0,
           end_of_rows_ |-> e,
           random_engine_ |-> engine_seed(p.random_seed)]

\* simple_data_iterator::has_next_batch
has_next_batch(it) == it.next_row_ # it.end_of_rows_

\* Variant: reset() also draws from the random engine.
reset_and_draw(it) ==
  [it EXCEPT !.next_row_ = 0, !.end_of_rows_ = Len(it.data_),
             !.random_engine_ = engine_step(@)]

\* simple_data_iterator::reset
reset(it) == [it EXCEPT !.next_row_ = 0, !.end_of_rows_ = Len(it.data_)]

\* Variant: no rewind at the end of the dataset.
rewind_stay_at_end(it) == it

\* Variant: the rewind lands on the second row.
rewind_to_one(it) == [it EXCEPT !.next_row_ = IF Len(it.data_) > 1 THEN 1 ELSE 0]

\* Variant: the rows are reshuffled whatever shuffle_ says.
rewind_always_shuffle(it) ==
  LET s == engine_step(it.random_engine_)
  IN [it EXCEPT !.data_ = shuffle_rows(it.data_, s),
                !.random_engine_ = s,
                !.next_row_ = 0]

\* The "reset iteration" block at the end of the dataset, repeat_ = true.
rewind(it) ==
  IF it.shuffle_
  THEN LET s == engine_step(it.random_engine_)
       IN [it EXCEPT !.data_ = shuffle_rows(it.data_, s),
                     !.random_engine_ = s,
                     !.next_row_ = 0]
  ELSE [it EXCEPT !.next_row_ = 0]

\* The local buffers of next_batch before the loop.
EmptyBatch ==
  [threw |-> FALSE, num_samples |-> 0, rows |-> <<>>, targets |-> <<>>,
   predictions |-> <<>>]

\* Variant: the index of the row's target label taken for the prediction.
prediction_index_of_target(m, row) == m[row.target]

\* class_to_index_map.at(row[predictions_index_])
prediction_index(m, row) == m[row.prediction]

\* The while loop of next_batch; b accumulates the batch.
RECURSIVE next_batch_loop(_, _, _)
next_batch_loop(it, batch_size, b) ==
  IF Len(b.targets) < batch_size /\ it.next_row_ # Len(it.data_)
  THEN LET row == it.data_[it.next_row_ + 1]
           m == it.target_properties_.class_to_index_map
       IN IF \/ it.predictions_index_ >= 0 /\ row.prediction \notin DOMAIN m
             \/ row.target \notin DOMAIN m
          THEN [it |-> it, batch |-> [b EXCEPT !.threw = TRUE]]
          ELSE LET b2 == [b EXCEPT
                            !.num_samples = @ + 1,
                            !.rows = Append(@, row),
                            !.predictions =
                               IF it.predictions_index_ >= 0
                               THEN Append(@, prediction_index(m, row))
                               ELSE @,
                            !.targets = Append(@, m[row.target])]
                   adv == [it EXCEPT !.next_row_ = @ + 1]
                   it2 == IF adv.next_row_ = Len(adv.data_) /\ adv.repeat_
                          THEN rewind(adv)
                          ELSE adv
               IN next_batch_loop(it2, batch_size, b2)
  ELSE [it |-> it, batch |-> b]

\* The batch returned by next_batch: the buffers wrapped as float arrays
\* with their shapes.  The drawings buffer was allocated before the loop
\* with batch_size images; no predictions are set without a predictions
\* column.
wrap_batch(it, batch_size, b) ==
  [threw |-> b.threw,
   num_samples |-> b.num_samples,
   rows |-> b.rows,
   drawings |->
     [size |-> batch_size * (kDrawingHeight * kDrawingWidth * kDrawingChannels),
      shape |-> <<b.num_samples, kDrawingHeight, kDrawingWidth, kDrawingChannels>>],
   targets |-> b.targets,
   has_predictions |-> it.predictions_index_ >= 0,
   predictions |-> b.predictions]

\* Variant: the fill loop reads one row before it tests the batch size.
next_batch_at_least_one(it, batch_size) ==
  LET r == next_batch_loop(it, IF batch_size = 0 THEN 1 ELSE batch_size, EmptyBatch)
  IN [it |-> r.it, batch |-> wrap_batch(r.it, batch_size, r.batch)]

\* simple_data_iterator::next_batch
next_batch(it, batch_size) ==
  LET r == next_batch_loop(it, batch_size, EmptyBatch)
  IN [it |-> r.it, batch |-> wrap_batch(r.it, batch_size, r.batch)]

\* ------------------------------------------------------------------------
\* State
\* ------------------------------------------------------------------------
VARIABLES
  params,                     \* data_iterator::parameters of the iterator under test
  iter,                       \* the simple_data_iterator under test
  last,                       \* the last call on iter and what it returned
  emitted,                    \* rows emitted by iter since construction / reset()
  config,                     \* arguments and options of drawing_classifier::train
  pc,                         \* position inside train() / iterate_training()
  training_data_iterator_,
  validation_data_iterator_,
  state,                      \* the model's state map (fields used by training)
  pending_batches,            \* std::queue<result>
  acc,                        \* local accumulators of the running epoch
  nn_spec_,                   \* drawing_classifier's network spec
  m_resnet_spec,              \* style_transfer's network spec
  outcome                     \* the last save / export call and how it ended

iterVars == <<params, iter, last, emitted>>

modelVars == <<nn_spec_, m_resnet_spec, outcome>>

trainVars == <<config, pc, training_data_iterator_, validation_data_iterator_,
               state, pending_batches, acc, nn_spec_, m_resnet_spec, outcome>>

vars == <<params, iter, last, emitted, config, pc, training_data_iterator_,
          validation_data_iterator_, state, pending_batches, acc,
          nn_spec_, m_resnet_spec, outcome>>

\* A network spec pointer that was never assigned.
NullSpec == "nullptr"

NoCall == [op |-> "none"]

\* A freshly constructed model of either toolkit.
ModelUntrained ==
  /\ nn_spec_ = NullSpec
  /\ m_resnet_spec = NullSpec
  /\ outcome = NoCall

NoConfig == [none |-> TRUE]

NoState == [training_iterations |-> 0]

NoAcc == [none |-> TRUE]

\* No drawing_classifier is training.
TrainerIdle ==
  /\ config = NoConfig
  /\ pc = "idle"
  /\ training_data_iterator_ = NoIterator
  /\ validation_data_iterator_ = NoIterator
  /\ state = NoState
  /\ pending_batches = <<>>
  /\ acc = NoAcc
  /\ ModelUntrained

\* No stand-alone iterator is under test.
IteratorIdle ==
  /\ params = [none |-> TRUE]
  /\ iter = NoIterator
  /\ last = [op |-> "none"]
  /\ emitted = 0

NoOp == [op |-> "none"]

ParamsSet(dataLabels, expectedSet) ==
  [data : {Rows(l) : l \in SeqsUpTo(dataLabels, MaxRows)},
   class_labels : expectedSet,
   predictions_column_name : {""},
   repeat : BOOLEAN,
   shuffle : BOOLEAN,
   random_seed : 0..MaxSeed]

\* Constructor call: compute_properties may throw, and then no iterator
\* exists.
Construct ==
  /\ pc = "idle"
  /\ iter = NoIterator
  /\ last.op = "none"
  /\ \E e \in UninitEnd(params.data) :
       iter' = construct(params, e)
  /\ last' = [op |-> "construct"]
  /\ UNCHANGED <<params, emitted>>
  /\ UNCHANGED trainVars

NextBatch ==
  /\ iter.constructed
  /\ \E n \in 0..MaxBatch :
       /\ emitted + n <= MaxEmitted
       /\ LET r == next_batch(iter, n)
          IN /\ iter' = r.it
             /\ last' = [op |-> "next_batch", n |-> n, pos |-> iter.next_row_,
                         start |-> emitted, batch |-> r.batch]
             /\ emitted' = emitted + r.batch.num_samples
  /\ UNCHANGED params
  /\ UNCHANGED trainVars

Reset ==
  /\ iter.constructed
  /\ iter' = reset(iter)
  /\ last' = [op |-> "reset"]
  /\ emitted' = 0
  /\ UNCHANGED params
  /\ UNCHANGED trainVars

\* Iteration over one iterator: class labels inferred, a fixed list that
\* covers every label and is not in sorted order, or one that misses "foo".
ExpectedAll == <<"foo", "bar", "baz">>

ExpectedSome == <<"baz", "bar">>

Init ==
  /\ params \in ParamsSet(TrainLabels, {<<>>, ExpectedAll, ExpectedSome})
  /\ iter = NoIterator
  /\ last = NoOp
  /\ emitted = 0
  /\ TrainerIdle

Next == Construct \/ NextBatch \/ Reset

Spec == Init /\ [][Next]_vars

\* The prediction a row carries: with "swap" the other training label,
\* with "baz_first" the label baz in the first row and the row's own target
\* in the others.
predicted(kind, i, target) ==
  IF kind = "swap" THEN (IF target = "foo" THEN "bar" ELSE "foo")
  ELSE IF i = 1 THEN "baz" ELSE target

\* Parameters over SFrames with a predictions column, named to the iterator
\* or not; class labels inferred or given as ExpectedAll.
PredParamsSet ==
  [data : {RowsWithPredictions(l, [i \in 1..Len(l) |-> predicted(kind, i, l[i])]) :
             l \in SeqsUpTo(TrainLabels, MaxRows), kind \in {"swap", "baz_first"}},
   class_labels : {<<>>, ExpectedAll},
   predictions_column_name : {"", "predictions"},
   repeat : BOOLEAN,
   shuffle : {FALSE},
   random_seed : {0}]

\* Iteration over one iterator whose data carries a predictions column.
InitPred ==
  /\ params \in PredParamsSet
  /\ iter = NoIterator
  /\ last = NoOp
  /\ emitted = 0
  /\ TrainerIdle

SpecPred == InitPred /\ [][Next]_vars

\* Construction alone, over every expected_class_labels sequence.
InitConstruct ==
  /\ params \in ParamsSet(Labels, SeqsUpTo(Labels, MaxExpected))
  /\ iter = NoIterator
  /\ last = NoOp
  /\ emitted = 0
  /\ TrainerIdle

NextConstruct == Construct

SpecConstruct == InitConstruct /\ [][NextConstruct]_vars

\* ------------------------------------------------------------------------
\* Two iterators built from the same parameters and driven by the same
\* calls.  The second iterator is held in training_data_iterator_ and the
\* batch it returned last in pending_batches.
\* ------------------------------------------------------------------------
PairVars == <<config, pc, validation_data_iterator_, state, acc>>

\* Both constructors run on params; each unassigned end_of_rows_ holds a
\* value of its own.
PairConstruct ==
  /\ iter = NoIterator
  /\ last.op = "none"
  /\ \E e1 \in UninitEnd(params.data), e2 \in UninitEnd(params.data) :
       /\ iter' = construct(params, e1)
       /\ training_data_iterator_' = construct(params, e2)
  /\ last' = [op |-> "construct"]
  /\ UNCHANGED <<params, emitted, pending_batches>>
  /\ UNCHANGED PairVars
  /\ UNCHANGED modelVars

\* next_batch(n) on both iterators.
PairNextBatch ==
  /\ iter.constructed
  /\ \E n \in 0..MaxBatch :
       /\ emitted + n <= MaxEmitted
       /\ LET r1 == next_batch(iter, n)
              r2 == next_batch(training_data_iterator_, n)
          IN /\ iter' = r1.it
             /\ training_data_iterator_' = r2.it
             /\ last' = [op |-> "next_batch", n |-> n, pos |-> iter.next_row_,
                         start |-> emitted, batch |-> r1.batch]
             /\ pending_batches' = <<r2.batch>>
             /\ emitted' = emitted + r1.batch.num_samples
  /\ UNCHANGED params
  /\ UNCHANGED PairVars
  /\ UNCHANGED modelVars

\* reset() on both iterators.
PairReset ==
  /\ iter.constructed
  /\ iter' = reset(iter)
  /\ training_data_iterator_' = reset(training_data_iterator_)
  /\ last' = [op |-> "reset"]
  /\ emitted' = 0
  /\ UNCHANGED <<params, pending_batches>>
  /\ UNCHANGED PairVars
  /\ UNCHANGED modelVars

\* Parameters of the pair: datasets of 0..MaxRows rows labelled foo, bar,
\* foo, ..., classes inferred, every setting of repeat, shuffle and
\* random_seed.
PairParamsSet ==
  [data : {Rows([i \in 1..n |-> IF i % 2 = 1 THEN "foo" ELSE "bar"]) :
             n \in 0..MaxRows},
   class_labels : {<<>>},
   predictions_column_name : {""},
   repeat : BOOLEAN,
   shuffle : BOOLEAN,
   random_seed : 0..MaxSeed]

InitPair ==
  /\ params \in PairParamsSet
  /\ iter = NoIterator
  /\ last = NoOp
  /\ emitted = 0
  /\ TrainerIdle

NextPair == PairConstruct \/ PairNextBatch \/ PairReset

SpecPair == InitPair /\ [][NextPair]_vars

\* ------------------------------------------------------------------------
\* Float arithmetic of the epoch summaries, as exact fractions; a division
\* by zero gives "inf" or "nan" as IEEE division does.
\* ------------------------------------------------------------------------
RECURSIVE GCD(_, _)
GCD(a, b) == IF b = 0 THEN a ELSE GCD(b, a % b)

Frac(n, d) == [kind |-> "num", num |-> n \div GCD(n, d), den |-> d \div GCD(n, d)]

Zero == Frac(0, 1)

Inf == [kind |-> "inf"]

NaN == [kind |-> "nan"]

\* n / d for non-negative integers.
Div(n, d) == IF d > 0 THEN Frac(n, d) ELSE IF n > 0 THEN Inf ELSE NaN

Add(x, y) ==
  IF x.kind = "nan" \/ y.kind = "nan" THEN NaN
  ELSE IF x.kind = "inf" \/ y.kind = "inf" THEN Inf
  ELSE Frac(x.num * y.den + y.num * x.den, x.den * y.den)

\* x / d for a float x and a non-negative integer d.
DivBy(x, d) ==
  IF x.kind = "nan" THEN NaN
  ELSE IF x.kind = "inf" THEN Inf
  ELSE Div(x.num, x.den * d)

\* ------------------------------------------------------------------------
\* Single-precision floats, for the accuracy a backend call reports and the
\* product "accuracy * num_samples".  A positive float is m * 2^(-s) with a
\* 24-bit significand m (2^23 <= m < 2^24); zero has m = 0.
\* ------------------------------------------------------------------------
SignificandBits == 24

\* The powers of two a float's significand and scaling need.
TwoTo == [i \in 0..30 |-> Pow2(i)]

\* q rounded up by one iff the remainder r of a division by d calls for it
\* (round to nearest, ties to even).
round_half_even(q, r, d) ==
  IF 2 * r > d \/ (2 * r = d /\ q % 2 = 1) THEN q + 1 ELSE q

\* The scaling s that brings k / n (0 < k <= n) into [2^23, 2^24).
RECURSIVE f32_scale(_, _, _)
f32_scale(num, n, s) ==
  IF num \div n >= TwoTo[SignificandBits - 1] THEN s
  ELSE f32_scale(2 * num, n, s + 1)

\* float(k) / float(n), correctly rounded, for 0 <= k <= n, n > 0.
f32_div(k, n) ==
  IF k = 0 THEN [m |-> 0, s |-> 0]
  ELSE LET s == f32_scale(k, n, 0)
           num == k * TwoTo[s]
           q == round_half_even(num \div n, num % n, n)
       IN IF q = TwoTo[SignificandBits]
          THEN [m |-> TwoTo[SignificandBits - 1], s |-> s - 1]
          ELSE [m |-> q, s |-> s]

\* The bits to drop from the integer p to leave a 24-bit significand.
RECURSIVE f32_excess(_, _)
f32_excess(p, t) ==
  IF p \div TwoTo[t] < TwoTo[SignificandBits] THEN t ELSE f32_excess(p, t + 1)

\* The integer p rounded to 24 significant bits.
f32_round(p) ==
  LET t == f32_excess(p, 0)
  IN round_half_even(p \div TwoTo[t], p % TwoTo[t], TwoTo[t]) * TwoTo[t]

\* static_cast<size_t>(accuracy * num_samples): the float product, rounded
\* to a float, then truncated.
num_correct(accuracy, num_samples) ==
  f32_round(accuracy.m * num_samples) \div TwoTo[accuracy.s]

\* ------------------------------------------------------------------------
\* drawing_classifier: train(), init_training(), iterate_training(),
\* compute_validation_metrics()
\* ------------------------------------------------------------------------
MaxTrainRows == 3
MaxBatchSize == 2
MaxIterations == 2
MaxBatches == 3

\* Summed losses a backend call may report.
LossValues == {1}

\* The accumulators at the start of iterate_training.  submitted and folded
\* record, for the pass in progress, the results pushed onto the pending
\* queue and the results popped from it, in order; rows records the rows of
\* the batches handed to the backend in this pass.
ZeroAcc ==
  [cumulative_batch_loss |-> Zero, num_batches |-> 0,
   train_num_correct |-> 0, train_num_samples |-> 0,
   cumulative_val_loss |-> 0, val_size |-> 0,
   val_num_correct |-> 0, val_num_samples |-> 0,
   submitted |-> <<>>, folded |-> <<>>, rows |-> <<>>]

\* drawing_classifier::create_iterator(data, is_train, class_labels); the
\* repeat, shuffle and random_seed fields keep the defaults of
\* data_iterator::parameters.
create_iterator(data, is_train, class_labels, defaults, e) ==
  construct([data |-> data,
             class_labels |-> IF is_train THEN <<>> ELSE class_labels,
             predictions_column_name |-> "",
             repeat |-> defaults.repeat,
             shuffle |-> defaults.shuffle,
             random_seed |-> defaults.random_seed], e)

\* Variant: the drain loop left out.
pop_until_size_train_keep(q, remaining, a) == [queue |-> q, acc |-> a]

\* pop_until_size of iterate_training: pops the oldest results and folds
\* them into the accumulators until at most `remaining` are queued.
RECURSIVE pop_until_size_train(_, _, _)
pop_until_size_train(q, remaining, a) ==
  IF Len(q) > remaining
  THEN LET batch == Head(q)
           a2 == [a EXCEPT
                    !.train_num_correct =
                       @ + num_correct(batch.accuracy, batch.num_samples),
                    !.train_num_samples = @ + batch.num_samples,
                    !.cumulative_batch_loss =
                       Add(@, Div(batch.loss, batch.num_samples)),
                    !.folded = Append(@, batch)]
       IN pop_until_size_train(Tail(q), remaining, a2)
  ELSE [queue |-> q, acc |-> a]

\* Variant: the newest result is popped first.
RECURSIVE pop_until_size_val_newest_first(_, _, _)
pop_until_size_val_newest_first(q, remaining, a) ==
  IF Len(q) > remaining
  THEN LET batch == q[Len(q)]
           a2 == [a EXCEPT
                    !.val_num_correct =
                       @ + num_correct(batch.accuracy, batch.num_samples),
                    !.val_num_samples = @ + batch.num_samples,
                    !.cumulative_val_loss = @ + batch.loss,
                    !.folded = Append(@, batch)]
       IN pop_until_size_val_newest_first(SubSeq(q, 1, Len(q) - 1), remaining, a2)
  ELSE [queue |-> q, acc |-> a]

\* pop_until_size of compute_validation_metrics.
RECURSIVE pop_until_size_val(_, _, _)
pop_until_size_val(q, remaining, a) ==
  IF Len(q) > remaining
  THEN LET batch == Head(q)
           a2 == [a EXCEPT
                    !.val_num_correct =
                       @ + num_correct(batch.accuracy, batch.num_samples),
                    !.val_num_samples = @ + batch.num_samples,
                    !.cumulative_val_loss = @ + batch.loss,
                    !.folded = Append(@, batch)]
       IN pop_until_size_val(Tail(q), remaining, a2)
  ELSE [queue |-> q, acc |-> a]

\* A result of the backend's train / predict for a batch of n samples of
\* which k were classified correctly: the summed loss and the accuracy k / n
\* as a float (0 for a batch without samples).  correct records k.
backend_result(n, k, loss) ==
  [num_samples |-> n, loss |-> loss, correct |-> k,
   accuracy |-> IF n = 0 THEN f32_div(0, 1) ELSE f32_div(k, n)]

\* What the backend may return for a batch: any loss of LossValues, none or
\* all of the samples correct.
BackendResults(batch) ==
  {backend_result(batch.num_samples, k, loss) :
     k \in {0, batch.num_samples}, loss \in LossValues}

\* iterate_training: average_batch_accuracy and average_batch_loss.
training_averages(a) ==
  [accuracy |-> Div(a.train_num_correct, a.train_num_samples),
   loss |-> DivBy(a.cumulative_batch_loss, a.num_batches)]

\* compute_validation_metrics: average_val_accuracy and average_val_loss.
validation_averages(a) ==
  [accuracy |-> Div(a.val_num_correct, a.val_num_samples),
   loss |-> Div(a.cumulative_val_loss, a.val_size)]

\* n rows whose labels alternate, starting with `first`.
Alternating(n, first, second) ==
  Rows([i \in 1..n |-> IF i % 2 = 1 THEN first ELSE second])

\* The arguments of train(): training data of 0..MaxTrainRows rows labelled
\* foo, bar, foo, ...; validation data labelled bar, foo, bar, ... (empty:
\* no validation); the options batch_size and max_iterations.
ConfigSet ==
  [data : {Alternating(n, "foo", "bar") : n \in 0..MaxTrainRows},
   validation_data : {Alternating(n, "bar", "foo") : n \in 0..MaxTrainRows},
   defaults : [repeat : BOOLEAN, shuffle : BOOLEAN, random_seed : {0}],
   batch_size : 1..MaxBatchSize,
   max_iterations : {MaxIterations}]

\* Variant: an iteration counted twice.
next_iteration_twice(iteration_idx) == iteration_idx + 2

\* The value "iteration_idx + 1" written to training_iterations at the end
\* of an iteration.
next_iteration(iteration_idx) == iteration_idx + 1

\* drawing_classifier::init_training
InitTraining ==
  /\ pc = "start"
  /\ \E e1 \in UninitEnd(config.data), e2 \in UninitEnd(config.validation_data) :
       LET t == create_iterator(config.data, TRUE, <<>>, config.defaults, e1)
           classes == t.target_properties_.classes
           v == IF config.validation_data # <<>>
                THEN create_iterator(config.validation_data, FALSE, classes,
                                     config.defaults, e2)
                ELSE NoIterator
       IN /\ training_data_iterator_' = t
          /\ validation_data_iterator_' = v
          /\ IF config.validation_data # <<>> /\ ~v.constructed
             THEN /\ pc' = "failed"
                  /\ state' = [state EXCEPT !.classes = classes]
             ELSE /\ pc' = "train_check"
                  /\ state' = [state EXCEPT !.classes = classes,
                                            !.num_classes = Len(classes),
                                            !.training_iterations = 0]
          /\ nn_spec_' = IF config.validation_data # <<>> /\ ~v.constructed
                         THEN nn_spec_ ELSE "init_model"
  /\ UNCHANGED <<config, pending_batches, acc, m_resnet_spec, outcome>>
  /\ UNCHANGED iterVars

\* train(): the test of "while (training_iterations < max_iterations)" and,
\* when it holds, the entry of iterate_training.
TrainCheckEnter ==
  /\ pc = "train_check"
  /\ state.training_iterations < state.max_iterations
  /\ acc' = ZeroAcc
  /\ pending_batches' = <<>>
  /\ pc' = "it_loop"
  /\ UNCHANGED <<config, training_data_iterator_, validation_data_iterator_, state>>
  /\ UNCHANGED iterVars
  /\ UNCHANGED modelVars

\* train(): the loop is left.
TrainCheckExit ==
  /\ pc = "train_check"
  /\ ~(state.training_iterations < state.max_iterations)
  /\ pc' = "done"
  /\ UNCHANGED <<config, training_data_iterator_, validation_data_iterator_,
                 state, pending_batches, acc>>
  /\ UNCHANGED iterVars
  /\ UNCHANGED modelVars

\* Variant: the queue is drained completely before each submission.
ItLoopEnterDrainAll ==
  /\ pc = "it_loop"
  /\ has_next_batch(training_data_iterator_)
  /\ acc.num_batches < MaxBatches
  /\ LET r == pop_until_size_train(pending_batches, 0, acc)
     IN /\ pending_batches' = r.queue
        /\ acc' = r.acc
  /\ pc' = "it_submit"
  /\ UNCHANGED <<config, training_data_iterator_, validation_data_iterator_, state>>
  /\ UNCHANGED iterVars
  /\ UNCHANGED modelVars

\* iterate_training: "while (has_next_batch())" holds; pop_until_size(1).
ItLoopEnter ==
  /\ pc = "it_loop"
  /\ has_next_batch(training_data_iterator_)
  /\ acc.num_batches < MaxBatches
  /\ LET r == pop_until_size_train(pending_batches, 1, acc)
     IN /\ pending_batches' = r.queue
        /\ acc' = r.acc
  /\ pc' = "it_submit"
  /\ UNCHANGED <<config, training_data_iterator_, validation_data_iterator_, state>>
  /\ UNCHANGED iterVars
  /\ UNCHANGED modelVars

\* iterate_training: next_batch, train, ++num_batches, push.
ItSubmit ==
  /\ pc = "it_submit"
  /\ LET r == next_batch(training_data_iterator_, state.batch_size)
     IN /\ training_data_iterator_' = r.it
        /\ \E res \in BackendResults(r.batch) :
             /\ pending_batches' = Append(pending_batches, res)
             /\ acc' = [acc EXCEPT !.num_batches = @ + 1,
                                   !.submitted = Append(@, res),
                                   !.rows = @ \o r.batch.rows]
  /\ pc' = "it_loop"
  /\ UNCHANGED <<config, validation_data_iterator_, state>>
  /\ UNCHANGED iterVars
  /\ UNCHANGED modelVars

\* iterate_training: the batch loop is left; pop_until_size(0) and the
\* training averages.
ItLoopExit ==
  /\ pc = "it_loop"
  /\ ~has_next_batch(training_data_iterator_)
  /\ LET r == pop_until_size_train(pending_batches, 0, acc)
     IN /\ pending_batches' = r.queue
        /\ acc' = r.acc
  /\ pc' = IF validation_data_iterator_.constructed THEN "val_begin" ELSE "it_finish"
  /\ UNCHANGED <<config, training_data_iterator_, validation_data_iterator_, state>>
  /\ UNCHANGED iterVars
  /\ UNCHANGED modelVars

\* Variant: the validation pass starts where the cursor was left.
ValBeginNoReset ==
  /\ pc = "val_begin"
  /\ validation_data_iterator_' = validation_data_iterator_
  /\ pending_batches' = <<>>
  /\ acc' = [acc EXCEPT !.submitted = <<>>, !.folded = <<>>, !.rows = <<>>]
  /\ pc' = "val_loop"
  /\ UNCHANGED <<config, training_data_iterator_, state>>
  /\ UNCHANGED iterVars
  /\ UNCHANGED modelVars

\* compute_validation_metrics: entry; the validation iterator is reset.
ValBegin ==
  /\ pc = "val_begin"
  /\ validation_data_iterator_' = reset(validation_data_iterator_)
  /\ pending_batches' = <<>>
  /\ acc' = [acc EXCEPT !.submitted = <<>>, !.folded = <<>>, !.rows = <<>>]
  /\ pc' = "val_loop"
  /\ UNCHANGED <<config, training_data_iterator_, state>>
  /\ UNCHANGED iterVars
  /\ UNCHANGED modelVars

\* compute_validation_metrics: "while (has_next_batch())" holds;
\* pop_until_size(1).
ValLoopEnter ==
  /\ pc = "val_loop"
  /\ has_next_batch(validation_data_iterator_)
  /\ acc.val_size < MaxBatches * state.batch_size
  /\ LET r == pop_until_size_val(pending_batches, 1, acc)
     IN /\ pending_batches' = r.queue
        /\ acc' = r.acc
  /\ pc' = "val_submit"
  /\ UNCHANGED <<config, training_data_iterator_, validation_data_iterator_, state>>
  /\ UNCHANGED iterVars
  /\ UNCHANGED modelVars

\* compute_validation_metrics: next_batch, predict, val_size, push.
ValSubmit ==
  /\ pc = "val_submit"
  /\ LET r == next_batch(validation_data_iterator_, state.batch_size)
     IN /\ validation_data_iterator_' = r.it
        /\ \E res \in BackendResults(r.batch) :
             /\ pending_batches' = Append(pending_batches, res)
             /\ acc' = [acc EXCEPT !.val_size = @ + r.batch.num_samples,
                                   !.submitted = Append(@, res),
                                   !.rows = @ \o r.batch.rows]
  /\ pc' = "val_loop"
  /\ UNCHANGED <<config, training_data_iterator_, state>>
  /\ UNCHANGED iterVars
  /\ UNCHANGED modelVars

\* compute_validation_metrics: the batch loop is left; pop_until_size(0).
ValLoopExit ==
  /\ pc = "val_loop"
  /\ ~has_next_batch(validation_data_iterator_)
  /\ LET r == pop_until_size_val(pending_batches, 0, acc)
     IN /\ pending_batches' = r.queue
        /\ acc' = r.acc
  /\ pc' = "it_finish"
  /\ UNCHANGED <<config, training_data_iterator_, validation_data_iterator_, state>>
  /\ UNCHANGED iterVars
  /\ UNCHANGED modelVars

\* iterate_training: the averages are written to the state and the
\* training iterator is reset.
ItFinish ==
  /\ pc = "it_finish"
  /\ LET withTrain ==
           [state EXCEPT
              !.training_iterations = next_iteration(state.training_iterations),
              !.training_accuracy = training_averages(acc).accuracy,
              !.training_log_loss = training_averages(acc).loss]
     IN state' = IF validation_data_iterator_.constructed
                 THEN [withTrain EXCEPT
                         !.validation_accuracy = validation_averages(acc).accuracy,
                         !.validation_log_loss = validation_averages(acc).loss]
                 ELSE withTrain
  /\ training_data_iterator_' = reset(training_data_iterator_)
  /\ pc' = "train_check"
  /\ UNCHANGED <<config, validation_data_iterator_, pending_batches, acc>>
  /\ UNCHANGED iterVars
  /\ UNCHANGED modelVars

\* ------------------------------------------------------------------------
\* style_transfer: train(), init_train(), infer_derived_options(),
\* iterate_training()
\* ------------------------------------------------------------------------
MaxStyles == 1
DEFAULT_BATCH_SIZE == 1
IterationsPerStyle == 10000

\* FLEX_UNDEFINED, the default of the options batch_size and max_iterations
\* (whose values are at least 1).
Undefined == 0

\* static_cast<flex_int>(num_styles * 10000.0f / batch_size)
estimate_max_iterations(num_styles, batch_size) ==
  (num_styles * IterationsPerStyle) \div batch_size

\* The options after infer_derived_options.
infer_derived_options(opts) ==
  LET batch_size == IF opts.batch_size = Undefined
                    THEN DEFAULT_BATCH_SIZE ELSE opts.batch_size
  IN [num_styles |-> opts.num_styles,
      batch_size |-> batch_size,
      max_iterations |->
        IF opts.max_iterations = Undefined
        THEN estimate_max_iterations(opts.num_styles, batch_size)
        ELSE opts.max_iterations,
      training_iterations |-> 0]

\* The arguments of style_transfer::train(): the number of styles and the
\* options batch_size and max_iterations, each undefined or at least 1.
StyleConfigSet ==
  [toolkit : {"style_transfer"},
   num_styles : 0..MaxStyles,
   batch_size : {Undefined} \cup 1..MaxBatchSize,
   max_iterations : {Undefined} \cup 1..MaxIterations]

\* style_transfer::init_train
StInitTrain ==
  /\ pc = "st_start"
  /\ state' = infer_derived_options(config)
  /\ pc' = "st_check"
  /\ m_resnet_spec' = "init_resnet"
  /\ UNCHANGED <<config, training_data_iterator_, validation_data_iterator_,
                 pending_batches, acc, nn_spec_, outcome>>
  /\ UNCHANGED iterVars

\* style_transfer::train: the loop test holds; one iterate_training (one
\* batch, one backend call, the counter).
StIterateTraining ==
  /\ pc = "st_check"
  /\ state.training_iterations < state.max_iterations
  /\ state' = [state EXCEPT
                 !.training_iterations = next_iteration(state.training_iterations)]
  /\ UNCHANGED <<config, pc, training_data_iterator_, validation_data_iterator_,
                 pending_batches, acc>>
  /\ UNCHANGED iterVars
  /\ UNCHANGED modelVars

\* style_transfer::train: the loop is left; finalize_training.
StTrainExit ==
  /\ pc = "st_check"
  /\ ~(state.training_iterations < state.max_iterations)
  /\ pc' = "st_done"
  /\ UNCHANGED <<config, training_data_iterator_, validation_data_iterator_,
                 state, pending_batches, acc>>
  /\ UNCHANGED iterVars
  /\ UNCHANGED modelVars

InitTrain ==
  /\ IteratorIdle
  /\ \/ config \in ConfigSet /\ pc = "start"
     \/ config \in StyleConfigSet /\ pc = "st_start"
  /\ training_data_iterator_ = NoIterator
  /\ validation_data_iterator_ = NoIterator
  /\ state = [max_iterations |-> config.max_iterations,
              batch_size |-> config.batch_size,
              training_iterations |-> 0,
              num_classes |-> 0,
              classes |-> <<>>,
              training_accuracy |-> NaN,
              training_log_loss |-> NaN,
              validation_accuracy |-> NaN,
              validation_log_loss |-> NaN]
  /\ pending_batches = <<>>
  /\ acc = ZeroAcc
  /\ ModelUntrained

NextTrain ==
  \/ InitTraining
  \/ TrainCheckEnter
  \/ TrainCheckExit
  \/ ItLoopEnter
  \/ ItSubmit
  \/ ItLoopExit
  \/ ValBegin
  \/ ValLoopEnter
  \/ ValSubmit
  \/ ValLoopExit
  \/ ItFinish
  \/ StInitTrain
  \/ StIterateTraining
  \/ StTrainExit

SpecTrain == InitTrain /\ [][NextTrain]_vars

\* ------------------------------------------------------------------------
\* save_impl and export_to_coreml of both toolkits, called on a model before
\* or after init_training / init_train.
\* ------------------------------------------------------------------------
\* How a call ends: the error "model spec is not initalized ..." / "model is
\* not initialized ..." is thrown, or the call goes on past the place of
\* that test, or the process crashes.
Thrown == "uninitialized_model_error"

Proceeded == "proceeded"

Crashed == "crashed"

\* What dereferencing the network spec pointer may do: undefined for a null
\* pointer.
dereference(spec) ==
  IF spec = NullSpec THEN {Crashed, Proceeded} ELSE {Proceeded}

\* drawing_classifier::save_impl
dc_save_impl(spec) ==
  IF spec = NullSpec THEN {Thrown} ELSE dereference(spec)

\* The drawing classifier object is not inside one of its calls.
DcAtRest == pc \in {"start", "train_check"}

\* The style transfer object is not inside one of its calls.
StAtRest == pc \in {"st_start", "st_check"}

DcSaveImpl ==
  /\ DcAtRest
  /\ \E result \in dc_save_impl(nn_spec_) :
       outcome' = [op |-> "drawing_classifier::save_impl",
                   spec |-> nn_spec_, result |-> result]
  /\ UNCHANGED <<config, pc, training_data_iterator_, validation_data_iterator_,
                 state, pending_batches, acc, nn_spec_, m_resnet_spec>>
  /\ UNCHANGED iterVars

\* drawing_classifier::export_to_coreml(filename, use_default_spec)
DcExportToCoreml ==
  /\ DcAtRest
  /\ \E use_default_spec \in BOOLEAN :
       IF nn_spec_ = NullSpec /\ ~use_default_spec
       THEN /\ outcome' = [op |-> "drawing_classifier::export_to_coreml",
                           spec |-> nn_spec_, result |-> Thrown]
            /\ UNCHANGED nn_spec_
       ELSE /\ nn_spec_' = IF nn_spec_ = NullSpec THEN "new model_spec"
                           ELSE nn_spec_
            /\ \E result \in dereference(nn_spec_') :
                 outcome' = [op |-> "drawing_classifier::export_to_coreml",
                             spec |-> nn_spec_, result |-> result]
  /\ UNCHANGED <<config, pc, training_data_iterator_, validation_data_iterator_,
                 state, pending_batches, acc, m_resnet_spec>>
  /\ UNCHANGED iterVars

\* style_transfer::save_impl
StSaveImpl ==
  /\ StAtRest
  /\ \E result \in dereference(m_resnet_spec) :
       outcome' = [op |-> "style_transfer::save_impl",
                   spec |-> m_resnet_spec, result |-> result]
  /\ UNCHANGED <<config, pc, training_data_iterator_, validation_data_iterator_,
                 state, pending_batches, acc, nn_spec_, m_resnet_spec>>
  /\ UNCHANGED iterVars

\* style_transfer::export_to_coreml
StExportToCoreml ==
  /\ StAtRest
  /\ \E result \in dereference(m_resnet_spec) :
       outcome' = [op |-> "style_transfer::export_to_coreml",
                   spec |-> m_resnet_spec, result |-> result]
  /\ UNCHANGED <<config, pc, training_data_iterator_, validation_data_iterator_,
                 state, pending_batches, acc, nn_spec_, m_resnet_spec>>
  /\ UNCHANGED iterVars

\* A model of either toolkit, initialised for training or not, on which
\* save_impl and export_to_coreml are called.
NextSave ==
  \/ InitTraining
  \/ StInitTrain
  \/ DcSaveImpl
  \/ DcExportToCoreml
  \/ StSaveImpl
  \/ StExportToCoreml

SpecSave == InitTrain /\ [][NextSave]_vars

\* ------------------------------------------------------------------------
\* The accumulation of iterate_training and compute_validation_metrics on
\* its own: the batch loop with batches of any size 1..MaxSamples, of which
\* any number of samples is classified correctly.
\* ------------------------------------------------------------------------
MaxSamples == 22
MaxFoldBatches == 2

FoldResults ==
  {backend_result(nk[1], nk[2], loss) :
     nk \in {p \in (1..MaxSamples) \X (0..MaxSamples) : p[2] <= p[1]},
     loss \in LossValues}

\* One round of the batch loop of iterate_training: pop_until_size(1), the
\* backend call, ++num_batches, push.
FoldTrainSubmit ==
  /\ pc = "fold_train"
  /\ acc.num_batches < MaxFoldBatches
  /\ \E res \in FoldResults :
       /\ LET r == pop_until_size_train(pending_batches, 1, acc)
          IN /\ pending_batches' = Append(r.queue, res)
             /\ acc' = [r.acc EXCEPT !.num_batches = @ + 1,
                                     !.submitted = Append(@, res)]
  /\ UNCHANGED <<config, pc, training_data_iterator_, validation_data_iterator_, state>>
  /\ UNCHANGED iterVars
  /\ UNCHANGED modelVars

\* The end of the batch loop of iterate_training: pop_until_size(0) and the
\* training averages.
FoldTrainFinish ==
  /\ pc = "fold_train"
  /\ LET r == pop_until_size_train(pending_batches, 0, acc)
     IN /\ pending_batches' = r.queue
        /\ acc' = r.acc
        /\ state' = [state EXCEPT
                       !.training_accuracy = training_averages(r.acc).accuracy,
                       !.training_log_loss = training_averages(r.acc).loss]
  /\ pc' = "fold_train_done"
  /\ UNCHANGED <<config, training_data_iterator_, validation_data_iterator_>>
  /\ UNCHANGED iterVars
  /\ UNCHANGED modelVars

\* One round of the batch loop of compute_validation_metrics.
FoldValSubmit ==
  /\ pc = "fold_val"
  /\ Len(acc.submitted) < MaxFoldBatches
  /\ \E res \in FoldResults :
       /\ LET r == pop_until_size_val(pending_batches, 1, acc)
          IN /\ pending_batches' = Append(r.queue, res)
             /\ acc' = [r.acc EXCEPT !.val_size = @ + res.num_samples,
                                     !.submitted = Append(@, res)]
  /\ UNCHANGED <<config, pc, training_data_iterator_, validation_data_iterator_, state>>
  /\ UNCHANGED iterVars
  /\ UNCHANGED modelVars

\* The end of the batch loop of compute_validation_metrics.
FoldValFinish ==
  /\ pc = "fold_val"
  /\ LET r == pop_until_size_val(pending_batches, 0, acc)
     IN /\ pending_batches' = r.queue
        /\ acc' = r.acc
        /\ state' = [state EXCEPT
                       !.validation_accuracy = validation_averages(r.acc).accuracy,
                       !.validation_log_loss = validation_averages(r.acc).loss]
  /\ pc' = "fold_val_done"
  /\ UNCHANGED <<config, training_data_iterator_, validation_data_iterator_>>
  /\ UNCHANGED iterVars
  /\ UNCHANGED modelVars

InitFold ==
  /\ IteratorIdle
  /\ config = NoConfig
  /\ pc \in {"fold_train", "fold_val"}
  /\ training_data_iterator_ = NoIterator
  /\ validation_data_iterator_ = NoIterator
  /\ state = [training_accuracy |-> NaN, training_log_loss |-> NaN,
              validation_accuracy |-> NaN, validation_log_loss |-> NaN]
  /\ pending_batches = <<>>
  /\ acc = ZeroAcc
  /\ ModelUntrained

NextFold ==
  \/ FoldTrainSubmit
  \/ FoldTrainFinish
  \/ FoldValSubmit
  \/ FoldValFinish

SpecFold == InitFold /\ [][NextFold]_vars

\* ------------------------------------------------------------------------
\* Properties of next_batch / has_next_batch / reset  (checked under Spec)
\* ------------------------------------------------------------------------
NumRows == Len(iter.data_)

IsBatch == iter.constructed /\ last.op = "next_batch"

\* C1 (as stated): a batch never holds more than n samples, and holds
\* exactly n whenever repeat is set or at least n rows remained, the empty
\* dataset with repeat set included.
C1_AsStated ==
  IsBatch =>
    /\ last.batch.num_samples <= last.n
    /\ (iter.repeat_ \/ NumRows - last.pos >= last.n)
         => last.batch.num_samples = last.n

\* C1 (amended): a batch never holds more than n samples, and holds exactly
\* n whenever at least n rows remained, or repeat is set and the dataset is
\* not empty.
C1_BatchSize ==
  IsBatch =>
    /\ last.batch.num_samples <= last.n
    /\ ((iter.repeat_ /\ NumRows > 0) \/ NumRows - last.pos >= last.n)
         => last.batch.num_samples = last.n

\* A batch larger than the non-empty dataset was filled completely.
C1_Witness ==
  /\ IsBatch
  /\ iter.repeat_
  /\ NumRows > 0
  /\ last.n > NumRows
  /\ last.batch.num_samples = last.n

\* C2: with repeat and no shuffle on N > 0 rows, the k-th row emitted since
\* construction or the last reset is row (k mod N) of the original order.
C2_CyclicOrder ==
  (IsBatch /\ iter.repeat_ /\ ~iter.shuffle_ /\ NumRows > 0) =>
    \A j \in 1..Len(last.batch.rows) :
      last.batch.rows[j] = params.data[((last.start + j - 1) % NumRows) + 1]

\* Three rows, batch size five: rows 0,1,2,0,1.
C2_Witness ==
  /\ IsBatch
  /\ iter.repeat_
  /\ ~iter.shuffle_
  /\ NumRows = 3
  /\ last.n = 5
  /\ last.start = 0
  /\ [j \in 1..Len(last.batch.rows) |-> last.batch.rows[j].id] = <<0, 1, 2, 0, 1>>

\* C3: every target of a batch is the index of the label of the row at that
\* slot, lies in 0..classes.size()-1, and the lookup never fails.
C3_Targets ==
  IsBatch =>
    /\ ~last.batch.threw
    /\ Len(last.batch.targets) = Len(last.batch.rows)
    /\ \A j \in 1..Len(last.batch.targets) :
         LET l == last.batch.rows[j].target
             tp == iter.target_properties_
         IN /\ l \in DOMAIN tp.class_to_index_map
            /\ last.batch.targets[j] = tp.class_to_index_map[l]
            /\ last.batch.targets[j] \in 0..(Len(tp.classes) - 1)
            /\ tp.classes[last.batch.targets[j] + 1] = l

\* A batch over rows of two different labels with caller-supplied classes.
C3_Witness ==
  /\ IsBatch
  /\ params.class_labels = ExpectedAll
  /\ Cardinality(Range(last.batch.targets)) >= 2

\* C4 (as stated): with repeat off, also before any reset(), once all rows
\* are consumed has_next_batch() is false, and a further next_batch returns
\* no sample and leaves the cursor in place.
C4_Exhausted ==
  (iter.constructed /\ ~iter.repeat_ /\ iter.next_row_ = NumRows) =>
    /\ ~has_next_batch(iter)
    /\ (last.op = "next_batch" /\ last.pos = NumRows)
         => (last.batch.num_samples = 0 /\ iter.next_row_ = last.pos)

\* C5 (as stated): has_next_batch() is false only at the end of the dataset
\* with repeat off; with repeat on and a non-empty dataset the cursor stays
\* below N and has_next_batch() is true.
C5_HasNextOnlyAtEnd ==
  iter.constructed =>
    /\ ~has_next_batch(iter) => (iter.next_row_ = NumRows /\ ~iter.repeat_)
    /\ (iter.repeat_ /\ NumRows > 0)
         => (iter.next_row_ < NumRows /\ has_next_batch(iter))

\* ------------------------------------------------------------------------
\* Properties of compute_properties  (checked under SpecConstruct)
\* ------------------------------------------------------------------------
Observed == Range(TargetColumn(params.data))

IsStrictlySorted(s) == \A i \in 1..(Len(s) - 1) : LabelLess(s[i], s[i + 1])

\* Row orders of the same data.
Reorderings(t) ==
  {u \in [1..Len(t) -> Range(t)] :
     \A l \in Range(t) :
       Cardinality({i \in 1..Len(t) : u[i] = l}) = Cardinality({i \in 1..Len(t) : t[i] = l})}

\* C6: with no expected labels, classes are the distinct observed labels in
\* sorted order, indexed by position, whatever the row order.
C6_Inferred ==
  (iter.constructed /\ params.class_labels = <<>>) =>
    LET tp == iter.target_properties_
    IN /\ IsStrictlySorted(tp.classes)
       /\ Range(tp.classes) = Observed
       /\ DOMAIN tp.class_to_index_map = Observed
       /\ \A i \in 1..Len(tp.classes) : tp.class_to_index_map[tp.classes[i]] = i - 1
       /\ \A u \in Reorderings(TargetColumn(params.data)) :
            compute_properties(u, <<>>) = tp

\* Labels inferred from rows that are out of order and repeat a label.
C6_Witness ==
  /\ iter.constructed
  /\ params.class_labels = <<>>
  /\ TargetColumn(params.data) = <<"foo", "bar", "foo">>
  /\ iter.target_properties_.classes = <<"bar", "foo">>

\* C7: non-empty expected labels covering every observed label: the
\* construction succeeds and class_labels() is the expected sequence as given.
C7_ExpectedKept ==
  (last.op = "construct" /\ params.class_labels # <<>>
     /\ Observed \subseteq Range(params.class_labels)) =>
    /\ iter.constructed
    /\ iter.target_properties_.classes = params.class_labels

\* Expected labels out of sorted order, one of them never observed.
C7_Witness ==
  /\ iter.constructed
  /\ params.class_labels = <<"foo", "bar">>
  /\ Observed = {"bar"}
  /\ iter.target_properties_.classes = <<"foo", "bar">>

\* C8: with non-empty expected labels the construction throws iff some
\* observed label is not expected; every observed label of a constructed
\* iterator has an index.
C8_UnexpectedThrows ==
  (last.op = "construct" /\ params.class_labels # <<>>) =>
    /\ ~iter.constructed <=> ~(Observed \subseteq Range(params.class_labels))
    /\ iter.constructed => Observed \subseteq DOMAIN iter.target_properties_.class_to_index_map

\* A construction that threw on an unexpected label.
C8_Witness ==
  /\ last.op = "construct"
  /\ ~iter.constructed
  /\ params.class_labels = <<"bar">>
  /\ "foo" \in Observed

\* C9 (as stated): every registry has one map entry per element of classes,
\* with values exactly 0..classes.size()-1 and classes[map[l]] = l.
C9_Bijective ==
  iter.constructed =>
    LET tp == iter.target_properties_
        m == tp.class_to_index_map
    IN /\ Cardinality(DOMAIN m) = Len(tp.classes)
       /\ {m[l] : l \in DOMAIN m} = 0..(Len(tp.classes) - 1)
       /\ \A l \in DOMAIN m : tp.classes[m[l] + 1] = l

\* ------------------------------------------------------------------------
\* Properties of the train / validation loops  (checked under SpecTrain)
\* ------------------------------------------------------------------------
\* C10: the queue of pending results never holds more than 2 entries, and at
\* most 1 at the moment a new batch is pulled and submitted.
C10_QueueDepth ==
  /\ Len(pending_batches) <= 2
  /\ pc \in {"it_submit", "val_submit"} => Len(pending_batches) <= 1

\* A third batch of a validation pass is about to be pulled while the second
\* is still pending and the first has been folded.
C10_Witness ==
  /\ pc = "val_submit"
  /\ Len(pending_batches) = 1
  /\ acc.val_num_samples > 0
  /\ acc.val_size > acc.val_num_samples

\* ------------------------------------------------------------------------
\* Properties of the epoch metrics  (checked under SpecTrain and SpecFold)
\* ------------------------------------------------------------------------
RECURSIVE SumLoss(_)
SumLoss(results) ==
  IF results = <<>> THEN 0 ELSE Head(results).loss + SumLoss(Tail(results))

RECURSIVE SumSamples(_)
SumSamples(results) ==
  IF results = <<>> THEN 0
  ELSE Head(results).num_samples + SumSamples(Tail(results))

RECURSIVE SumCorrect(_)
SumCorrect(results) ==
  IF results = <<>> THEN 0 ELSE Head(results).correct + SumCorrect(Tail(results))

\* The training pass of iterate_training has just ended.
TrainingPassDone ==
  \/ pc = "val_begin"
  \/ pc = "it_finish" /\ ~validation_data_iterator_.constructed

\* The validation pass of compute_validation_metrics has just ended.
ValidationPassDone ==
  pc = "it_finish" /\ validation_data_iterator_.constructed

\* C11 (as stated): the loss of an epoch, for the training pass and for the
\* validation pass alike, is the sum of the summed losses of the submitted
\* batches divided by the total number of their samples.
C11_SizeWeightedLoss ==
  /\ TrainingPassDone =>
       training_averages(acc).loss =
         Div(SumLoss(acc.submitted), SumSamples(acc.submitted))
  /\ ValidationPassDone =>
       validation_averages(acc).loss =
         Div(SumLoss(acc.submitted), SumSamples(acc.submitted))

\* C12 (as stated): the accuracy of an epoch is the number of correctly
\* classified samples of all its batches, each batch contributing its
\* accuracy times its number of samples, divided by the total number of
\* samples.
C12_WeightedAccuracy ==
  /\ pc = "fold_train_done" =>
       state.training_accuracy =
         Div(SumCorrect(acc.submitted), SumSamples(acc.submitted))
  /\ pc = "fold_val_done" =>
       state.validation_accuracy =
         Div(SumCorrect(acc.submitted), SumSamples(acc.submitted))

\* ------------------------------------------------------------------------
\* Properties of train()  (checked under SpecTrain)
\* ------------------------------------------------------------------------
\* train() of either toolkit is between init and its return.
InTrain ==
  pc \in {"train_check", "it_loop", "it_submit", "val_begin", "val_loop",
          "val_submit", "it_finish", "done", "st_check", "st_done"}

\* A call of iterate_training completes in this step.
IterateTrainingCompletes ==
  \/ pc = "it_finish" /\ pc' = "train_check"
  \/ pc = "st_check" /\ pc' = "st_check" /\ state' # state

\* C13: a completed iterate_training of either toolkit adds exactly 1 to
\* training_iterations, whatever the number of batches, and nothing else
\* changes the counter during train(); the counter never exceeds
\* max_iterations; train() leaves its loop exactly when the two are equal.
C13_Iterations ==
  /\ [](InTrain => state.training_iterations <= state.max_iterations)
  /\ [](pc \in {"done", "st_done"} =>
          state.training_iterations = state.max_iterations)
  /\ [][/\ IterateTrainingCompletes =>
             state'.training_iterations = state.training_iterations + 1
        /\ (InTrain /\ ~IterateTrainingCompletes) =>
             state'.training_iterations = state.training_iterations]_vars

\* The drawing classifier returned from train() after max_iterations
\* epochs, the last of them of two batches.
C13_Witness ==
  /\ pc = "done"
  /\ state.training_iterations = MaxIterations
  /\ acc.num_batches = 2

\* The batch loop of iterate_training is at its test, after at least one
\* batch of this epoch, with the training iterator in the state in which
\* the epoch began: the cursor at 0 and, no shuffle being configured, the
\* row order and the random engine as they were.
BackAtEpochStart ==
  /\ pc = "it_loop"
  /\ acc.num_batches > 0
  /\ ~training_data_iterator_.shuffle_
  /\ training_data_iterator_.next_row_ = 0

\* C14 (as stated, in the form a finite run refutes): for a non-empty
\* training dataset and either value of repeat the batch loop of an epoch is
\* left after finitely many batches.  The loop test and next_batch depend on
\* the iterator alone, so a loop that is back in the iterator state of the
\* epoch's start with has_next_batch() still true comes round for ever; a
\* loop that ends is never there.
C14_EpochTerminates ==
  (BackAtEpochStart /\ config.data # <<>>)
    => ~has_next_batch(training_data_iterator_)

\* The training pass of iterate_training is in progress or has just ended.
InTrainingPass ==
  pc \in {"it_loop", "it_submit"} \/ TrainingPassDone

\* C15 (as stated): no average is computed with a zero divisor.  The
\* divisions are batch_loss / num_samples for every batch folded in the
\* training pass, cumulative_batch_loss / num_batches and train_num_correct /
\* train_num_samples at the end of the training pass, val_num_correct /
\* val_num_samples and cumulative_val_loss / val_size at the end of the
\* validation pass.
C15_NoZeroDivisor ==
  /\ InTrainingPass =>
       \A i \in 1..Len(acc.folded) : acc.folded[i].num_samples # 0
  /\ TrainingPassDone => acc.num_batches # 0 /\ acc.train_num_samples # 0
  /\ ValidationPassDone => acc.val_num_samples # 0 /\ acc.val_size # 0

\* ------------------------------------------------------------------------
\* Properties of save_impl / export_to_coreml  (checked under SpecSave)
\* ------------------------------------------------------------------------
\* C16 (as stated): save_impl and export_to_coreml of either toolkit, called
\* while the network spec has not been built, throw the uninitialized-model
\* error.
C16_UninitializedModelError ==
  (outcome # NoCall /\ outcome.spec = NullSpec) => outcome.result = Thrown

\* ------------------------------------------------------------------------
\* Further properties of the iterator  (checked under Spec and SpecPred)
\* ------------------------------------------------------------------------
\* A step of reset() on the iterator under test.
ResetStep == iter.constructed /\ last'.op = "reset"

\* The first call after reset() is a next_batch that emits a row.
FirstBatchAfterReset ==
  /\ last.op = "reset"
  /\ last'.op = "next_batch"
  /\ last'.batch.num_samples > 0

\* C17: reset() puts the cursor at position 0 and leaves the row order, the
\* random engine, the label registry and the repeat / shuffle flags as they
\* were; the first row emitted after it is row 0 of that order.
C17_ResetFrame ==
  [][/\ ResetStep =>
          /\ iter'.next_row_ = 0
          /\ iter'.data_ = iter.data_
          /\ iter'.random_engine_ = iter.random_engine_
          /\ iter'.target_properties_ = iter.target_properties_
          /\ iter'.repeat_ = iter.repeat_
          /\ iter'.shuffle_ = iter.shuffle_
     /\ FirstBatchAfterReset => last'.batch.rows[1] = iter.data_[1]]_vars

\* reset() has acted on an iterator whose rows were reshuffled and whose
\* engine has advanced: the order in place is not the original one.
C17_Witness ==
  /\ iter.constructed
  /\ last.op = "reset"
  /\ iter.next_row_ = 0
  /\ iter.data_ # params.data
  /\ iter.random_engine_ # engine_seed(params.random_seed)

RECURSIVE Product(_)
Product(shape) == IF shape = <<>> THEN 1 ELSE Head(shape) * Product(Tail(shape))

\* next_batch returned a batch (no label lookup failed).
BatchReturned == IsBatch /\ ~last.batch.threw

\* C18 (as stated): the features buffer of every batch holds exactly
\* num_samples * 28 * 28 * 1 values, as many as its shape
\* [num_samples, 28, 28, 1] declares, also for a batch shorter than asked
\* for; the targets buffer holds num_samples values.
C18_BufferSizes ==
  BatchReturned =>
    /\ last.batch.drawings.shape =
         <<last.batch.num_samples, kDrawingHeight, kDrawingWidth, kDrawingChannels>>
    /\ last.batch.drawings.size = Product(last.batch.drawings.shape)
    /\ Len(last.batch.targets) = last.batch.num_samples

\* C19: a returned batch has a predictions buffer iff the iterator was
\* built with a predictions column; the buffer then has num_samples
\* entries, entry j being the registry index of the prediction label of the
\* row in slot j; next_batch fails iff the row it stops at has a prediction
\* label outside the registry.
C19_Predictions ==
  LET m == iter.target_properties_.class_to_index_map
      named == params.predictions_column_name # ""
  IN /\ BatchReturned =>
          /\ last.batch.has_predictions <=> named
          /\ ~named => last.batch.predictions = <<>>
          /\ named =>
               /\ Len(last.batch.predictions) = last.batch.num_samples
               /\ \A j \in 1..last.batch.num_samples :
                    /\ last.batch.rows[j].prediction \in DOMAIN m
                    /\ last.batch.predictions[j] = m[last.batch.rows[j].prediction]
     /\ (IsBatch /\ last.batch.threw) =>
          /\ named
          /\ iter.data_[iter.next_row_ + 1].prediction \notin DOMAIN m

\* A batch of two rows whose predictions differ from each other and from
\* the targets.
C19_Witness ==
  /\ BatchReturned
  /\ last.batch.has_predictions
  /\ last.batch.num_samples = 2
  /\ last.batch.predictions[1] # last.batch.predictions[2]
  /\ last.batch.predictions # last.batch.targets

\* ------------------------------------------------------------------------
\* Properties of the pending queue  (checked under SpecTrain)
\* ------------------------------------------------------------------------
\* C20: when the batch loop of iterate_training or of
\* compute_validation_metrics has been left and the queue drained, the queue
\* is empty, the results folded into the accumulators are the results
\* submitted in this pass, each once and in the order of submission, and the
\* number of samples folded is the sum of their num_samples (for the
\* validation pass also val_size).
C20_DrainedInOrder ==
  /\ (TrainingPassDone \/ ValidationPassDone) =>
       /\ pending_batches = <<>>
       /\ acc.folded = acc.submitted
  /\ TrainingPassDone =>
       /\ acc.train_num_samples = SumSamples(acc.submitted)
       /\ Len(acc.submitted) = acc.num_batches
  /\ ValidationPassDone =>
       /\ acc.val_num_samples = SumSamples(acc.submitted)
       /\ acc.val_num_samples = acc.val_size

\* A validation pass has ended after three batches, the first and the last
\* with different results.
C20_Witness ==
  /\ ValidationPassDone
  /\ Len(acc.submitted) = 3
  /\ acc.submitted[1] # acc.submitted[3]
  /\ acc.val_num_samples = 3

\* ------------------------------------------------------------------------
\* Order of submissions and drains within a pass  (checked under SpecTrain)
\* ------------------------------------------------------------------------
\* The batch loop of iterate_training or compute_validation_metrics is
\* running.
InBatchLoop == pc \in {"it_loop", "it_submit", "val_loop", "val_submit"}

\* The next step submits a batch.
AboutToSubmit == pc \in {"it_submit", "val_submit"}

\* C21: while the batch loop runs, the results of batch k have been drained
\* only if batch k+1 has been submitted (so the newest submitted batch is
\* never drained inside the loop), and when batch k+2 is about to be
\* submitted the results of batch k have been drained.
C21_DrainAfterNextSubmit ==
  InBatchLoop =>
    /\ Len(acc.folded) <= Len(acc.submitted)
    /\ acc.folded = SubSeq(acc.submitted, 1, Len(acc.folded))
    /\ acc.submitted # <<>> => Len(acc.folded) <= Len(acc.submitted) - 1
    /\ AboutToSubmit => Len(acc.folded) >= Len(acc.submitted) - 1

\* The third batch of a training pass is about to be submitted: the first
\* has been drained, the second is still pending.
C21_Witness ==
  /\ pc = "it_submit"
  /\ Len(acc.submitted) = 2
  /\ Len(acc.folded) = 1
  /\ Len(pending_batches) = 1

\* ------------------------------------------------------------------------
\* The validation pass  (checked under SpecTrain)
\* ------------------------------------------------------------------------
\* compute_validation_metrics has reset the iterator and submitted nothing
\* yet.
ValidationPassStarted ==
  pc = "val_loop" /\ acc.submitted = <<>>

\* C22: compute_validation_metrics starts its pass at row 0 with the end
\* marker at the end of the dataset; when the validation iterator does not
\* repeat, the rows submitted to predict in one call are the rows of the
\* validation dataset, each once, in every call of a run, and val_num_samples
\* is the size of the dataset.
C22_FullValidationPass ==
  /\ ValidationPassStarted =>
       /\ validation_data_iterator_.next_row_ = 0
       /\ validation_data_iterator_.end_of_rows_ =
            Len(validation_data_iterator_.data_)
  /\ (ValidationPassDone /\ ~validation_data_iterator_.repeat_) =>
       /\ acc.rows = config.validation_data
       /\ acc.val_num_samples = Len(config.validation_data)

\* The second call of compute_validation_metrics in a run has ended, for an
\* iterator that does not repeat, over three rows pulled in two batches.
C22_Witness ==
  /\ ValidationPassDone
  /\ ~validation_data_iterator_.repeat_
  /\ state.training_iterations = 1
  /\ Len(config.validation_data) = 3
  /\ Len(acc.submitted) = 2
  /\ acc.val_num_samples = 3

\* ------------------------------------------------------------------------
\* Reshuffles  (checked under Spec)
\* ------------------------------------------------------------------------
\* a holds the rows of b, each once.
IsPermutationOf(a, b) ==
  /\ Len(a) = Len(b)
  /\ Range(a) = Range(b)
  /\ Cardinality(Range(a)) = Len(a)

\* A step of next_batch on an iterator that repeats and shuffles a dataset
\* of at least one row.
ShuffledBatchStep ==
  /\ iter.constructed
  /\ iter.repeat_
  /\ iter.shuffle_
  /\ NumRows > 0
  /\ last'.op = "next_batch"

\* The rows of a batch from position `from` to position `to`.
BatchRows(b, from, to) == SubSeq(b.rows, from, to)

\* C23: with repeat and shuffle, the row order in place is always a
\* permutation of the rows of the dataset (rows keep their feature and
\* label) and the cursor is the number of rows emitted modulo N, so a rewind
\* happens after every N rows; a next_batch(n) from position p that does not
\* reach the end returns rows p..p+n-1 of the order in place and leaves order
\* and engine alone; one that reaches the end returns the tail of the old
\* order from p, then (for batches longer than a whole pass) passes that
\* each hold every row once, then the head of the new order, at whose end
\* the cursor stands; the engine has then advanced.
C23_Reshuffle ==
  /\ [](iter.constructed /\ iter.repeat_ /\ iter.shuffle_ =>
          /\ IsPermutationOf(iter.data_, params.data)
          /\ NumRows > 0 => iter.next_row_ = emitted % NumRows)
  /\ [][ShuffledBatchStep =>
          LET N == NumRows
              p == iter.next_row_
              n == last'.n
              b == last'.batch
              tail == IF p + n < N THEN n ELSE N - p
              head == (p + n) % N
          IN /\ b.num_samples = n
             /\ BatchRows(b, 1, tail) = SubSeq(iter.data_, p + 1, p + tail)
             /\ p + n < N =>
                  /\ iter'.data_ = iter.data_
                  /\ iter'.random_engine_ = iter.random_engine_
                  /\ iter'.next_row_ = p + n
             /\ p + n >= N =>
                  /\ IsPermutationOf(iter'.data_, iter.data_)
                  /\ iter'.random_engine_ # iter.random_engine_
                  /\ iter'.next_row_ = head
                  /\ BatchRows(b, n - head + 1, n) = SubSeq(iter'.data_, 1, head)
                  /\ \A j \in 1..((p + n) \div N - 1) :
                       LET from == tail + (j - 1) * N + 1
                       IN Range(BatchRows(b, from, from + N - 1)) = Range(iter.data_)
         ]_vars

\* A batch of four rows was drawn from position 1 of three rows: it holds
\* two rows of the old order and the first two of the new order, which is
\* not the old one.
C23_Witness ==
  /\ IsBatch
  /\ iter.repeat_
  /\ iter.shuffle_
  /\ NumRows = 3
  /\ last.pos = 1
  /\ last.n = 4
  /\ iter.next_row_ = 2
  /\ BatchRows(last.batch, 3, 4) = SubSeq(iter.data_, 1, 2)
  /\ BatchRows(last.batch, 1, 2) # SubSeq(iter.data_, 2, 3)
  /\ Cardinality(Range(BatchRows(last.batch, 1, 2)) \cup {last.batch.rows[3]}) = 3

\* ------------------------------------------------------------------------
\* Reproducibility  (checked under SpecPair)
\* ------------------------------------------------------------------------
\* The second iterator of the pair.
Second == training_data_iterator_

TrainingClasses == training_data_iterator_.target_properties_.classes

\* C25 (as stated): the validation iterator built by init_training holds
\* exactly the class list of the training iterator, and the same label to
\* index map; the training iterator's classes are the sorted distinct labels
\* of the training data.
C25_SharedClassList ==
  /\ training_data_iterator_.constructed =>
       TrainingClasses = sort(unique(TargetColumn(config.data)))
  /\ validation_data_iterator_.constructed =>
       /\ validation_data_iterator_.target_properties_.classes = TrainingClasses
       /\ validation_data_iterator_.target_properties_.class_to_index_map =
            training_data_iterator_.target_properties_.class_to_index_map

\* The validation data holds a label that no training row carries.
ValidationLabelUnknown ==
  Range(TargetColumn(config.validation_data)) \ Range(TargetColumn(config.data)) # {}

\* C26 (as stated): once init_training has run on validation data with a
\* label that does not occur in the training data, the run has failed at
\* the construction of the validation iterator: no validation iterator
\* exists, no batch has been submitted and training_iterations is 0.
C26_UnknownValidationLabelFails ==
  (training_data_iterator_.constructed /\ ValidationLabelUnknown) =>
    /\ pc = "failed"
    /\ ~validation_data_iterator_.constructed
    /\ acc.submitted = <<>>
    /\ acc.num_batches = 0
    /\ state.training_iterations = 0

\* ------------------------------------------------------------------------
\* Iterators that do not reshuffle  (checked under Spec)
\* ------------------------------------------------------------------------
\* C27: an iterator with repeat off or shuffle off keeps, through every
\* next_batch and reset, the row order of the dataset it was built on and
\* the engine state of its seed; with repeat off the rows emitted since
\* construction or the last reset are the rows at positions 0..emitted-1,
\* each once, the last batch being the rows from where the cursor stood.
C27_NoReshuffle ==
  /\ (iter.constructed /\ (~iter.repeat_ \/ ~iter.shuffle_)) =>
       /\ iter.data_ = params.data
       /\ iter.random_engine_ = engine_seed(params.random_seed)
  /\ (iter.constructed /\ ~iter.repeat_) =>
       /\ emitted <= NumRows
       /\ iter.next_row_ = emitted
       /\ last.op = "next_batch" =>
            /\ last.pos = last.start
            /\ last.batch.rows =
                 SubSeq(params.data, last.start + 1, last.start + last.batch.num_samples)

\* An iterator that repeats without shuffling has wrapped around three rows
\* in one batch of five drawn from position 2.
C27_Witness ==
  /\ IsBatch
  /\ iter.repeat_
  /\ ~iter.shuffle_
  /\ NumRows = 3
  /\ last.pos = 2
  /\ last.batch.num_samples = 5
  /\ iter.next_row_ = 1
  /\ iter.data_ = params.data

\* ------------------------------------------------------------------------
\* save_impl after export_to_coreml  (checked under SpecSave)
\* ------------------------------------------------------------------------
\* init_training has not run on the drawing_classifier (and nothing was
\* loaded into it).
DcNeverInitialized == pc = "start"

\* C28 (as stated): on a drawing_classifier on which init_training has not
\* run, save_impl throws the uninitialized-model error, whatever
\* export_to_coreml calls came before it.
C28_ExportNeverEnablesSave ==
  (DcNeverInitialized /\ outcome.op = "drawing_classifier::save_impl") =>
    outcome.result = Thrown

\* ------------------------------------------------------------------------
\* next_batch(0)  (checked under Spec)
\* ------------------------------------------------------------------------
\* A step of next_batch(0) on the iterator under test.
EmptyBatchStep ==
  /\ iter.constructed
  /\ last'.op = "next_batch"
  /\ last'.n = 0

\* C29: next_batch(0) returns a batch without samples, rows or targets and
\* leaves the iterator (cursor, row order, random engine and every other
\* member) as it was, whatever its state and its repeat / shuffle flags.
C29_EmptyBatchFrame ==
  [][EmptyBatchStep =>
       /\ last'.batch.num_samples = 0
       /\ last'.batch.rows = <<>>
       /\ last'.batch.targets = <<>>
       /\ ~last'.batch.threw
       /\ iter'.next_row_ = iter.next_row_
       /\ iter'.data_ = iter.data_
       /\ iter'.random_engine_ = iter.random_engine_
       /\ iter' = iter
       /\ emitted' = emitted]_vars

\* next_batch(0) has returned on an iterator that repeats and shuffles,
\* whose rows were reshuffled before and whose cursor stands inside the
\* dataset.
C29_Witness ==
  /\ IsBatch
  /\ last.n = 0
  /\ last.batch.num_samples = 0
  /\ iter.repeat_
  /\ iter.shuffle_
  /\ iter.data_ # params.data
  /\ iter.next_row_ > 0
  /\ iter.next_row_ = last.pos

====
